---- MODULE Spec2Model ----
(***************************************************************************)
(* Model of utils/data_controller.py: the Dataset wrapper, the             *)
(* DataCleaning and DataAugmentation pipelines and the prediction branch   *)
(* of Dataloader.preprocessing.                                            *)
(*                                                                         *)
(* A Python str is a sequence of one-character strings, offsets are        *)
(* 0-based as in the source.  A DataFrame is a sequence of rows in         *)
(* positional order; every row carries its index label in the field idx.   *)
(***************************************************************************)
EXTENDS Integers, Sequences, FiniteSets, TLC

VARIABLES obj, df, df0, ret, select_list, train, pc, pos, applied, gap, aug_df, inputs, targets, item

vars == <<obj, df, df0, ret, select_list, train, pc, pos, applied, gap, aug_df, inputs, targets, item>>

(***************************************************************************)
(* Bounds of the model                                                     *)
(***************************************************************************)
MaxLen == 5

MaxSel == 3

MaxGap == 1

MaxRows == 2

(***************************************************************************)
(* Python str slicing for non-negative offsets: s[:k] and s[k:] clamp k    *)
(* to len(s).                                                              *)
(***************************************************************************)
Min(a, b) == IF a < b THEN a ELSE b

Take(s, k) == SubSeq(s, 1, Min(k, Len(s)))

Drop(s, k) == SubSeq(s, Min(k, Len(s)) + 1, Len(s))

(***************************************************************************)
(* sorted([...], reverse=True) on a list of integers                       *)
(***************************************************************************)
MaxOf(S) == CHOOSE m \in S : \A x \in S : x <= m

MinOf(S) == CHOOSE m \in S : \A x \in S : m <= x

RemoveAt(l, k) == SubSeq(l, 1, k - 1) \o SubSeq(l, k + 1, Len(l))

RECURSIVE SortedReverse(_)
SortedReverse(l) ==
    IF l = <<>> THEN <<>>
    ELSE LET m == MaxOf({l[k] : k \in DOMAIN l})
             k == CHOOSE j \in DOMAIN l : l[j] = m
         IN  <<m>> \o SortedReverse(RemoveAt(l, k))

RECURSIVE SortedAscending(_)
SortedAscending(l) ==
    IF l = <<>> THEN <<>>
    ELSE LET m == MinOf({l[k] : k \in DOMAIN l})
             k == CHOOSE j \in DOMAIN l : l[j] = m
         IN  <<m>> \o SortedAscending(RemoveAt(l, k))

Offsets(row) ==
    <<row.subject_start_idx, row.subject_end_idx, row.object_start_idx, row.object_end_idx>>

(***************************************************************************)
(* DataCleaning.add_entity_tokens_base                                     *)
(***************************************************************************)
OpenENT == <<"[","E","N","T","]"," ">>

CloseENT == <<" ","[","/","E","N","T","]"," ">>

\* faulty variant: the closing marker goes before the character at idx, not after it
InsertENTCloseBefore(sentence, check, idx) ==
    IF check % 2 = 0
    THEN Take(sentence, idx) \o CloseENT \o Drop(sentence, idx)
    ELSE Take(sentence, idx) \o OpenENT \o Drop(sentence, idx)

\* one iteration of the enumerate loop: the marker for rank check at offset idx
InsertENT(sentence, check, idx) ==
    IF check % 2 = 0
    THEN Take(sentence, idx + 1) \o CloseENT \o Drop(sentence, idx + 1)
    ELSE Take(sentence, idx) \o OpenENT \o Drop(sentence, idx)

RECURSIVE BaseLoop(_, _, _)
BaseLoop(sentence, idxs, check) ==
    IF idxs = <<>> THEN sentence
    ELSE BaseLoop(InsertENT(sentence, check, Head(idxs)), Tail(idxs), check + 1)

\* faulty variant: the offsets are walked in ascending order (reverse=True forgotten)
AddEntityTokensBaseRowAscending(row) ==
    [row EXCEPT !.sentence = BaseLoop(row.sentence, SortedAscending(Offsets(row)), 0)]

\* faulty variant: the subject offsets are moved along with the inserted markers
AddEntityTokensBaseRowRecomputed(row) ==
    [row EXCEPT !.sentence = BaseLoop(row.sentence, SortedReverse(Offsets(row)), 0),
                !.subject_start_idx = row.subject_start_idx + Len(OpenENT),
                !.subject_end_idx = row.subject_end_idx + Len(OpenENT)]

AddEntityTokensBaseRow(row) ==
    [row EXCEPT !.sentence = BaseLoop(row.sentence, SortedReverse(Offsets(row)), 0)]

add_entity_tokens_base(t) == [k \in DOMAIN t |-> AddEntityTokensBaseRow(t[k])]

(***************************************************************************)
(* DataCleaning.add_entity_tokens_detail                                   *)
(***************************************************************************)
RoleToken(row, trigger) ==
    IF trigger THEN <<"O", ":">> \o row.object_type
    ELSE <<"S", ":">> \o row.subject_type

OpenRole(token) == <<"[">> \o token \o <<"]", " ">>

CloseRole(token) == <<" ", "[", "/">> \o token \o <<"]", " ">>

\* faulty variant: the role label starts from the entity whose end offset is smaller
InitialTriggerSmaller(row) == row.object_end_idx < row.subject_end_idx

InitialTrigger(row) == row.object_end_idx > row.subject_end_idx

RECURSIVE DetailLoop(_, _, _, _, _)
DetailLoop(row, sentence, idxs, check, trigger) ==
    IF idxs = <<>> THEN sentence
    ELSE LET idx == Head(idxs)
             token == RoleToken(row, trigger)
         IN  IF check % 2 = 0
             THEN DetailLoop(row,
                             Take(sentence, idx + 1) \o CloseRole(token) \o Drop(sentence, idx + 1),
                             Tail(idxs), check + 1, trigger)
             ELSE DetailLoop(row,
                             Take(sentence, idx) \o OpenRole(token) \o Drop(sentence, idx),
                             Tail(idxs), check + 1, ~trigger)

AddEntityTokensDetailRow(row) ==
    [row EXCEPT !.sentence =
        DetailLoop(row, row.sentence, SortedReverse(Offsets(row)), 0, InitialTrigger(row))]

add_entity_tokens_detail(t) == [k \in DOMAIN t |-> AddEntityTokensDetailRow(t[k])]

(***************************************************************************)
(* DataCleaning.add_others_tokens: every maximal run of characters of the  *)
(* regex class (kana, hanja) becomes "[OTH]".  "K" stands for a kana, "H" *)
(* for a hanja character; no other character of the model is in the class. *)
(***************************************************************************)
OtherChars == {"K", "H"}

OTH == <<"[","O","T","H","]">>

RECURSIVE ReplaceOthers(_, _)
ReplaceOthers(s, inRun) ==
    IF s = <<>> THEN <<>>
    ELSE IF Head(s) \in OtherChars
         THEN (IF inRun THEN <<>> ELSE OTH) \o ReplaceOthers(Tail(s), TRUE)
         ELSE <<Head(s)>> \o ReplaceOthers(Tail(s), FALSE)

add_others_tokens(t) ==
    [k \in DOMAIN t |-> [t[k] EXCEPT !.sentence = ReplaceOthers(t[k].sentence, FALSE)]]

(***************************************************************************)
(* DataCleaning.stop_words.  okt.morphs is an external analyzer: it is     *)
(* modelled as splitting the sentence at blanks.  The stop-word file is    *)
(* not part of the sources: the model's list holds the one word "is".      *)
(***************************************************************************)
StopWordSet == {<<"i","s">>}

RECURSIVE Morphs(_, _)
Morphs(s, word) ==
    IF s = <<>> THEN (IF word = <<>> THEN <<>> ELSE <<word>>)
    ELSE IF Head(s) = " "
         THEN (IF word = <<>> THEN <<>> ELSE <<word>>) \o Morphs(Tail(s), <<>>)
         ELSE Morphs(Tail(s), Append(word, Head(s)))

RECURSIVE Join(_)
Join(words) ==
    IF words = <<>> THEN <<>>
    ELSE IF Len(words) = 1 THEN words[1]
    ELSE words[1] \o <<" ">> \o Join(Tail(words))

StopWordsLogic(x) == Join(SelectSeq(Morphs(x, <<>>), LAMBDA w : w \notin StopWordSet))

stop_words(t) ==
    [k \in DOMAIN t |-> [t[k] EXCEPT !.sentence = StopWordsLogic(t[k].sentence)]]

(***************************************************************************)
(* DataCleaning.spacing: x.replace(" ", "") and then the external Spacing  *)
(* library, modelled as putting a blank after every g-th character (g = 0: *)
(* no blank at all); g is fixed for a run.                                 *)
(***************************************************************************)
RemoveBlanks(x) == SelectSeq(x, LAMBDA c : c # " ")

RECURSIVE SpacingLib(_, _, _)
SpacingLib(x, g, n) ==
    IF x = <<>> THEN <<>>
    ELSE IF g > 0 /\ n = g /\ Len(x) > 0
         THEN <<" ", Head(x)>> \o SpacingLib(Tail(x), g, 1)
         ELSE <<Head(x)>> \o SpacingLib(Tail(x), g, n + 1)

spacing(t, g) ==
    [k \in DOMAIN t |-> [t[k] EXCEPT !.sentence = SpacingLib(RemoveBlanks(t[k].sentence), g, 0)]]

(***************************************************************************)
(* DataCleaning.remove_duplicated: df.drop(del_idx, axis=0, inplace=True)  *)
(* raises KeyError, before it changes anything, when a label of del_idx is *)
(* not in the index; then reset_index(drop=True).                          *)
(***************************************************************************)
del_idx == <<6749, 8364, 22258, 277, 10202, 4212>>

Labels(t) == {t[k].idx : k \in DOMAIN t}

\* faulty variant: drop(..., errors='ignore')
DropRaisesNever(t) == FALSE

DropRaises(t) == \E j \in DOMAIN del_idx : del_idx[j] \notin Labels(t)

DropRows(t) == SelectSeq(t, LAMBDA row : \A j \in DOMAIN del_idx : row.idx # del_idx[j])

ResetIndex(t) == [k \in DOMAIN t |-> [t[k] EXCEPT !.idx = k - 1]]

remove_duplicated(t) == ResetIndex(DropRows(t))

(***************************************************************************)
(* Rows and tables                                                         *)
(***************************************************************************)
PER == <<"P","E","R">>

ORG == <<"O","R","G">>

Word(sentence, start, end) == SubSeq(sentence, start + 1, end + 1)

Row(label, sentence, ss, se, os, oe, st, ot, rel) ==
    [idx |-> label, sentence |-> sentence,
     subject_entity |-> Word(sentence, ss, se), object_entity |-> Word(sentence, os, oe),
     subject_start_idx |-> ss, subject_end_idx |-> se,
     object_start_idx |-> os, object_end_idx |-> oe,
     subject_type |-> st, object_type |-> ot, label |-> rel]

Letters == <<"a","b"," ","c","d","e","f","g">>

ExampleSentence ==
    <<"A","B"," ","w","a","s"," ","w","r","i","t","t","e","n"," ","b","y"," ","C","D",".">>

ExampleRow == Row(0, ExampleSentence, 19, 20, 0, 1, PER, ORG, "r")

\* the records the tagging operations are tried on: every sentence length up
\* to MaxLen, every choice of the four offsets inside the sentence (ordered or
\* not, overlapping or not), and the record of the written example
TagOffsets ==
    {q \in (2..MaxLen) \X (0..(MaxLen - 1)) \X (0..(MaxLen - 1)) \X (0..(MaxLen - 1)) \X (0..(MaxLen - 1)) :
        q[2] < q[1] /\ q[3] < q[1] /\ q[4] < q[1] /\ q[5] < q[1]}

TagRows ==
    {ExampleRow} \cup
    { Row(0, Take(Letters, q[1]), q[2], q[3], q[4], q[5], st, PER, "r") :
        q \in TagOffsets, st \in {PER, ORG} }

(***************************************************************************)
(* TagSpec: one of the two tagging methods is called on a one-row table.   *)
(***************************************************************************)
NoDataset == [input_ids |-> <<>>]

TagInit ==
    /\ obj = "DataCleaning"
    /\ ret = <<>>
    /\ df \in {<<row>> : row \in TagRows}
    /\ df0 = df
    /\ select_list = <<>>
    /\ train = FALSE
    /\ pc = "start"
    /\ pos = 0
    /\ applied = <<>>
    /\ gap = 0
    /\ aug_df = <<>>
    /\ inputs = NoDataset
    /\ targets = <<>>
    /\ item = <<>>

CallBase ==
    /\ pc = "start"
    /\ df' = add_entity_tokens_base(df)
    /\ applied' = <<"add_entity_tokens_base">>
    /\ ret' = df'
    /\ pc' = "returned"
    /\ UNCHANGED <<obj, df0, select_list, train, pos, gap, aug_df, inputs, targets, item>>

CallDetail ==
    /\ pc = "start"
    /\ df' = add_entity_tokens_detail(df)
    /\ applied' = <<"add_entity_tokens_detail">>
    /\ ret' = df'
    /\ pc' = "returned"
    /\ UNCHANGED <<obj, df0, select_list, train, pos, gap, aug_df, inputs, targets, item>>

TagNext == CallBase \/ CallDetail

TagSpec == TagInit /\ [][TagNext]_vars

(***************************************************************************)
(* Spans of a record                                                       *)
(***************************************************************************)
InSentence(row) ==
    \A k \in DOMAIN Offsets(row) : Offsets(row)[k] \in 0..(Len(row.sentence) - 1)

SubjectFirst(row) == row.subject_end_idx < row.object_start_idx

ObjectFirst(row) == row.object_end_idx < row.subject_start_idx

DisjointOrdered(row) ==
    /\ InSentence(row)
    /\ row.subject_start_idx <= row.subject_end_idx
    /\ row.object_start_idx <= row.object_end_idx
    /\ SubjectFirst(row) \/ ObjectFirst(row)

\* s with m1..m4 put in before the characters at offsets a <= b <= c <= d
Inserted(s, a, m1, b, m2, c, m3, d, m4) ==
    Take(s, a) \o m1 \o SubSeq(s, a + 1, b) \o m2 \o SubSeq(s, b + 1, c) \o m3
        \o SubSeq(s, c + 1, d) \o m4 \o Drop(s, d)

\* two opening and two closing markers, in any order
MarkerOrders ==
    {m \in [1..4 -> {OpenENT, CloseENT}] : Cardinality({k \in 1..4 : m[k] = OpenENT}) = 2}

FourMarkersInserted(orig, res) ==
    \E a \in 0..Len(orig) : \E b \in a..Len(orig) : \E c \in b..Len(orig) : \E d \in c..Len(orig) :
        \E m \in MarkerOrders : res = Inserted(orig, a, m[1], b, m[2], c, m[3], d, m[4])

\* both spans wrapped: the first span [a1, b1] by o1, c1 and the second [a2, b2] by o2, c2
Wrapped(s, a1, b1, o1, c1, a2, b2, o2, c2) ==
    Inserted(s, a1, o1, b1 + 1, c1, a2, o2, b2 + 1, c2)

BaseCalled == pc = "returned" /\ applied = <<"add_entity_tokens_base">>

DetailCalled == pc = "returned" /\ applied = <<"add_entity_tokens_detail">>

\* C1: for a record whose subject and object spans are disjoint, ordered and
\* inside the sentence, add_entity_tokens_base only inserts: the result is the
\* original sentence with exactly four markers put in, two "[ENT] " and two
\* " [/ENT] " (an opening one before and a closing one after each span), so
\* that taking the four markers out gives back the original sentence.
C1_BaseOnlyInsertsFourMarkers ==
    (BaseCalled /\ DisjointOrdered(df0[1])) =>
        LET r == df0[1]
            orig == r.sentence
            res == df[1].sentence
        IN  /\ Len(res) = Len(orig) + 2 * Len(OpenENT) + 2 * Len(CloseENT)
            /\ FourMarkersInserted(orig, res)
            /\ res = IF SubjectFirst(r)
                     THEN Wrapped(orig, r.subject_start_idx, r.subject_end_idx, OpenENT, CloseENT,
                                  r.object_start_idx, r.object_end_idx, OpenENT, CloseENT)
                     ELSE Wrapped(orig, r.object_start_idx, r.object_end_idx, OpenENT, CloseENT,
                                  r.subject_start_idx, r.subject_end_idx, OpenENT, CloseENT)

C1_Witness ==
    /\ BaseCalled
    /\ DisjointOrdered(df0[1])
    /\ ObjectFirst(df0[1])
    /\ df0[1].object_start_idx < df0[1].object_end_idx
    /\ Len(df[1].sentence) = Len(df0[1].sentence) + 28

ClaimedExampleResult ==
    <<"[","E","N","T","]"," ","A","B"," ","[","/","E","N","T","]"," ","w","a","s"," ",
      "w","r","i","t","t","e","n"," ","b","y"," ","[","E","N","T","]"," ","C","D"," ",
      "[","/","E","N","T","]",".">>

ActualExampleResult ==
    <<"[","E","N","T","]"," ","A","B"," ","[","/","E","N","T","]"," "," ","w","a","s"," ",
      "w","r","i","t","t","e","n"," ","b","y"," ","C","[","E","N","T","]"," ","D","."," ",
      "[","/","E","N","T","]"," ">>

\* C2 (as stated): add_entity_tokens_base on "AB was written by CD." with
\* subject span [19,20] and object span [0,1] yields
\* "[ENT] AB [/ENT] was written by [ENT] CD [/ENT].".
C2_ExampleAsStated ==
    (BaseCalled /\ df0[1] = ExampleRow) => df[1].sentence = ClaimedExampleResult

\* C2 (amended): on that record the result is
\* "[ENT] AB [/ENT]  was written by C[ENT] D. [/ENT] ": offsets 19 and 20 are
\* the characters "D" and ".", and each marker brings its own blank, which
\* stands next to the blank the sentence already has after "AB".
C2_ExampleActual ==
    (BaseCalled /\ df0[1] = ExampleRow) => df[1].sentence = ActualExampleResult

C2_Witness == BaseCalled /\ df0[1] = ExampleRow /\ df[1].sentence # ExampleSentence

\* C8: for a record with disjoint spans add_entity_tokens_detail wraps the
\* subject span in "[S:<subject_type>] " and " [/S:<subject_type>] " and the
\* object span in "[O:<object_type>] " and " [/O:<object_type>] ", whichever of
\* the two comes first; the role label starts as the role of the entity whose
\* end offset is larger.
C8_DetailWrapsEachSpanInItsOwnRole ==
    (DetailCalled /\ DisjointOrdered(df0[1])) =>
        LET r == df0[1]
            S == <<"S", ":">> \o r.subject_type
            O == <<"O", ":">> \o r.object_type
        IN  /\ RoleToken(r, InitialTrigger(r)) = (IF ObjectFirst(r) THEN S ELSE O)
            /\ df[1].sentence =
                 IF SubjectFirst(r)
                 THEN Wrapped(r.sentence,
                              r.subject_start_idx, r.subject_end_idx, OpenRole(S), CloseRole(S),
                              r.object_start_idx, r.object_end_idx, OpenRole(O), CloseRole(O))
                 ELSE Wrapped(r.sentence,
                              r.object_start_idx, r.object_end_idx, OpenRole(O), CloseRole(O),
                              r.subject_start_idx, r.subject_end_idx, OpenRole(S), CloseRole(S))

C8_Witness ==
    /\ DetailCalled
    /\ DisjointOrdered(df0[1])
    /\ ObjectFirst(df0[1])
    /\ df0[1].subject_type # df0[1].object_type
    /\ df[1].sentence # df0[1].sentence

(***************************************************************************)
(* The tables process is run on.  Only the rows that matter are written    *)
(* out: a table is given by the index labels of its rows.                  *)
(***************************************************************************)
Sentence1 == <<"a","b"," ","K","H"," ","c">>

Sentence2 == <<"c"," ","i","s"," ","a","b">>

TemplateRow(label, k) ==
    IF k % 2 = 1
    THEN Row(label, Sentence1, 0, 1, 6, 6, PER, ORG, "r1")
    ELSE Row(label, Sentence2, 5, 6, 0, 0, ORG, PER, "r2")

TableOf(labels) == [k \in DOMAIN labels |-> TemplateRow(labels[k], k)]

RangeIndex(n) == [k \in 1..n |-> k - 1]

AllDuplicatesTable == TableOf(<<277, 4212, 6749, 8364, 10202, 22258, 22259>>)

OneDuplicateTable == TableOf(<<0, 277, 278>>)

ProcTables ==
    {TableOf(RangeIndex(n)) : n \in 1..MaxRows} \cup {AllDuplicatesTable, OneDuplicateTable}

SeqsUpTo(S, n) == UNION {[1..m -> S] : m \in 0..n}

(***************************************************************************)
(* DataCleaning.process and DataAugmentation.process, one loop iteration   *)
(* per step.  eval("self." + method_name) raises AttributeError for a name *)
(* the object does not have.                                               *)
(***************************************************************************)
continue_list == {"remove_duplicated"}

CleaningMethods ==
    {"entity_parsing", "remove_duplicated", "add_entity_tokens_base", "add_entity_tokens_detail",
     "add_others_tokens", "stop_words", "spacing"}

\* DataAugmentation defines no augmentation method in the sources; these two
\* stand for methods that return a new table with one row per row of df.
AugmentationMethods == {"aug_swap", "aug_mask"}

UnknownNames == {"no_such_method"}

aug_swap(t) ==
    [k \in DOMAIN t |->
        [t[k] EXCEPT !.subject_entity = t[k].object_entity, !.object_entity = t[k].subject_entity,
                     !.subject_start_idx = t[k].object_start_idx, !.subject_end_idx = t[k].object_end_idx,
                     !.object_start_idx = t[k].subject_start_idx, !.object_end_idx = t[k].subject_end_idx,
                     !.subject_type = t[k].object_type, !.object_type = t[k].subject_type]]

aug_mask(t) == [k \in DOMAIN t |-> [t[k] EXCEPT !.sentence = <<"[","M","]">> \o t[k].sentence]]

AugApply(name, t) == IF name = "aug_swap" THEN aug_swap(t) ELSE aug_mask(t)

\* faulty variant: remove_duplicated is skipped in training mode as well
SkippedAlways(method_name, tr) == method_name \in continue_list

\* faulty variant: nothing is ever skipped
SkippedNever(method_name, tr) == FALSE

Skipped(method_name, tr) == ~tr /\ method_name \in continue_list

ProcInit ==
    /\ \/ /\ obj = "DataCleaning"
          /\ select_list \in SeqsUpTo(CleaningMethods \cup UnknownNames, MaxSel)
          /\ train \in BOOLEAN
          /\ gap \in 0..MaxGap
       \/ /\ obj = "DataAugmentation"
          /\ select_list \in SeqsUpTo(AugmentationMethods \cup UnknownNames, MaxSel)
          /\ train = TRUE
          /\ gap = 0
    /\ df \in ProcTables
    /\ df0 = df
    /\ ret = <<>>
    /\ pc = "process"
    /\ pos = 1
    /\ applied = <<>>
    /\ aug_df = <<>>
    /\ inputs = NoDataset
    /\ targets = <<>>
    /\ item = <<>>

InLoop == pc = "process" /\ pos <= Len(select_list)

Calls(method_name) ==
    /\ obj = "DataCleaning"
    /\ InLoop
    /\ select_list[pos] = method_name
    /\ ~Skipped(method_name, train)

\* faulty variant: the method works on a copy, the table handed in stays as it was
ReturnsLeavingTable(t) ==
    /\ df' = df
    /\ applied' = Append(applied, select_list[pos])
    /\ pos' = pos + 1
    /\ UNCHANGED <<obj, df0, ret, select_list, train, pc, gap, aug_df, inputs, targets, item>>

\* df = method(df): the method has rewritten the table and returned it
Returns(t) ==
    /\ df' = t
    /\ applied' = Append(applied, select_list[pos])
    /\ pos' = pos + 1
    /\ UNCHANGED <<obj, df0, ret, select_list, train, pc, gap, aug_df, inputs, targets, item>>

Raises(exception) ==
    /\ pc' = exception
    /\ UNCHANGED <<obj, df, df0, ret, select_list, train, pos, applied, gap, aug_df, inputs, targets, item>>

DC_continue ==
    /\ obj = "DataCleaning"
    /\ InLoop
    /\ Skipped(select_list[pos], train)
    /\ pos' = pos + 1
    /\ UNCHANGED <<obj, df, df0, ret, select_list, train, pc, applied, gap, aug_df, inputs, targets, item>>

DC_AttributeError ==
    /\ obj = "DataCleaning"
    /\ InLoop
    /\ ~Skipped(select_list[pos], train)
    /\ select_list[pos] \notin CleaningMethods
    /\ Raises("AttributeError")

\* on a table of new_*.csv the entity columns hold the bare word, and eval of
\* the word (then ['word'] of it) raises; only an empty table gets through
DC_entity_parsing ==
    /\ Calls("entity_parsing")
    /\ IF df = <<>> THEN Returns(df) ELSE Raises("EvalError")

DC_remove_duplicated ==
    /\ Calls("remove_duplicated")
    /\ IF DropRaises(df) THEN Raises("KeyError") ELSE Returns(remove_duplicated(df))

DC_add_entity_tokens_base == Calls("add_entity_tokens_base") /\ Returns(add_entity_tokens_base(df))

DC_add_entity_tokens_detail == Calls("add_entity_tokens_detail") /\ Returns(add_entity_tokens_detail(df))

DC_add_others_tokens == Calls("add_others_tokens") /\ Returns(add_others_tokens(df))

DC_stop_words == Calls("stop_words") /\ Returns(stop_words(df))

DC_spacing == Calls("spacing") /\ Returns(spacing(df, gap))

DC_return ==
    /\ obj = "DataCleaning"
    /\ pc = "process"
    /\ pos > Len(select_list)
    /\ ret' = df
    /\ pc' = "returned"
    /\ UNCHANGED <<obj, df, df0, select_list, train, pos, applied, gap, aug_df, inputs, targets, item>>

\* faulty variant: the method is given what the earlier methods produced
AugStepChained(current, name, t) ==
    current \o AugApply(name, IF current = <<>> THEN t ELSE SubSeq(current, Len(current) - Len(t) + 1, Len(current)))

\* aug_df = pd.concat([aug_df, method(df)])
AugStep(current, name, t) == current \o AugApply(name, t)

\* df = pd.concat([df, aug_df]) under "if self.select_list:"
AugResult(t, selection, augmented) == IF selection # <<>> THEN t \o augmented ELSE t

DA_apply ==
    /\ obj = "DataAugmentation"
    /\ InLoop
    /\ select_list[pos] \in AugmentationMethods
    /\ aug_df' = AugStep(aug_df, select_list[pos], df)
    /\ applied' = Append(applied, select_list[pos])
    /\ pos' = pos + 1
    /\ UNCHANGED <<obj, df, df0, ret, select_list, train, pc, gap, inputs, targets, item>>

DA_AttributeError ==
    /\ obj = "DataAugmentation"
    /\ InLoop
    /\ select_list[pos] \notin AugmentationMethods
    /\ Raises("AttributeError")

DA_return ==
    /\ obj = "DataAugmentation"
    /\ pc = "process"
    /\ pos > Len(select_list)
    /\ ret' = AugResult(df, select_list, aug_df)
    /\ pc' = "returned"
    /\ UNCHANGED <<obj, df, df0, select_list, train, pos, applied, gap, aug_df, inputs, targets, item>>

(***************************************************************************)
(* Dataloader.preprocessing, train=False: x = DC.process(x) and then       *)
(* tokenizing(x), which hands the tokenizer one pair of texts per row.     *)
(***************************************************************************)
SEP == <<" ","[","S","E","P","]"," ">>

TokenizerInput(x) ==
    [k \in DOMAIN x |-> [concat_entity |-> x[k].object_entity \o SEP \o x[k].subject_entity,
                         sentence |-> x[k].sentence]]

Predict_tokenizing ==
    /\ obj = "DataCleaning"
    /\ pc = "returned"
    /\ ~train
    /\ item' = TokenizerInput(ret)
    /\ pc' = "tokenized"
    /\ UNCHANGED <<obj, df, df0, ret, select_list, train, pos, applied, gap, aug_df, inputs, targets>>

ProcNext ==
    \/ DC_continue
    \/ DC_AttributeError
    \/ DC_entity_parsing
    \/ DC_remove_duplicated
    \/ DC_add_entity_tokens_base
    \/ DC_add_entity_tokens_detail
    \/ DC_add_others_tokens
    \/ DC_stop_words
    \/ DC_spacing
    \/ DC_return
    \/ DA_apply
    \/ DA_AttributeError
    \/ DA_return
    \/ Predict_tokenizing

ProcSpec == ProcInit /\ [][ProcNext]_vars

(***************************************************************************)
(* What the configured list asks for, written without the loop             *)
(***************************************************************************)
Expected(selection, tr) == SelectSeq(selection, LAMBDA name : tr \/ name # "remove_duplicated")

Apply(name, t, g) ==
    CASE name = "remove_duplicated" -> remove_duplicated(t)
      [] name = "add_entity_tokens_base" -> add_entity_tokens_base(t)
      [] name = "add_entity_tokens_detail" -> add_entity_tokens_detail(t)
      [] name = "add_others_tokens" -> add_others_tokens(t)
      [] name = "stop_words" -> stop_words(t)
      [] name = "spacing" -> spacing(t, g)
      [] OTHER -> t

RECURSIVE ApplyAll(_, _, _)
ApplyAll(names, t, g) ==
    IF names = <<>> THEN t ELSE ApplyAll(Tail(names), Apply(Head(names), t, g), g)

Finished == pc \in {"returned", "tokenized"}

\* C3: DataCleaning.process applies the operations of select_DC strictly in
\* list order, each one on the table the previous one returned; with train
\* False every remove_duplicated of the list is skipped and the others run in
\* their configured order, with train True nothing is skipped.
C3_AppliedInListOrder ==
    obj = "DataCleaning" =>
        /\ pos \in 1..(Len(select_list) + 1)
        /\ applied = Expected(SubSeq(select_list, 1, pos - 1), train)
        /\ df = ApplyAll(applied, df0, gap)
        /\ Finished => (applied = Expected(select_list, train) /\ ret = df)
        /\ (Finished /\ train) => applied = select_list

C3_Witness ==
    /\ obj = "DataCleaning"
    /\ pc = "tokenized"
    /\ ~train
    /\ select_list = <<"remove_duplicated", "stop_words">>
    /\ applied = <<"stop_words">>
    /\ df # df0

C3_WitnessTrain ==
    /\ obj = "DataCleaning"
    /\ pc = "returned"
    /\ train
    /\ select_list = <<"add_others_tokens", "remove_duplicated">>
    /\ applied = select_list
    /\ Len(df) < Len(df0)

\* C4 (as stated): when the list holds a name that is no method of the object,
\* process ends in an error and the table handed in is exactly as it was before
\* the call, also when valid names stand before the unknown one.
C4_TableUntouchedOnUnknownName ==
    pc = "AttributeError" => df = df0

\* C4 (amended): the error is raised when the loop reaches the first unknown
\* name: nothing is returned and no later operation runs, but the operations
\* named before it have run.  DataCleaning's operations rewrite the table
\* handed in, so it is left as those operations made it (and as it was only
\* when none ran); DataAugmentation.process leaves the table handed in as it was.
C4_FailsAtFirstUnknownName ==
    pc = "AttributeError" =>
        /\ pos \in DOMAIN select_list
        /\ select_list[pos] \in UnknownNames
        /\ \A k \in 1..(pos - 1) : select_list[k] \notin UnknownNames
        /\ ret = <<>>
        /\ Len(applied) <= pos - 1
        /\ obj = "DataCleaning" =>
              /\ applied = Expected(SubSeq(select_list, 1, pos - 1), train)
              /\ df = ApplyAll(applied, df0, gap)
        /\ obj = "DataAugmentation" => (df = df0 /\ applied = SubSeq(select_list, 1, pos - 1))

C4_Witness ==
    /\ pc = "AttributeError"
    /\ obj = "DataCleaning"
    /\ select_list = <<"add_entity_tokens_base", "no_such_method">>
    /\ applied = <<"add_entity_tokens_base">>
    /\ df # df0

\* C5: DataAugmentation.process with k row-count-preserving operations on a
\* table of n rows returns n*(k+1) rows: the n original rows and then, for each
\* operation in list order, that operation applied to the original table; an
\* empty selection returns the table unchanged.
C5_AugmentationRows ==
    (obj = "DataAugmentation" /\ pc = "returned") =>
        LET n == Len(df0)
            k == Len(select_list)
        IN  /\ Len(ret) = n * (k + 1)
            /\ SubSeq(ret, 1, n) = df0
            /\ \A j \in 1..k : SubSeq(ret, n * j + 1, n * (j + 1)) = AugApply(select_list[j], df0)
            /\ select_list = <<>> => ret = df0

C5_Witness ==
    /\ obj = "DataAugmentation"
    /\ pc = "returned"
    /\ select_list = <<"aug_mask", "aug_mask">>
    /\ Len(df0) = 2
    /\ Len(ret) = 6

RewritingMethods ==
    {"add_entity_tokens_base", "add_entity_tokens_detail", "add_others_tokens", "stop_words", "spacing"}

OnlyRewritten == \A k \in DOMAIN applied : applied[k] \in RewritingMethods

Front(l) == SubSeq(l, 1, Len(l) - 1)

\* C9: after any sequence of the sentence-rewriting operations every column
\* but sentence is as it was in every row, and a tagging operation that runs
\* after another rewriting operation puts its markers at the offsets of the
\* original sentence.
C9_OffsetsNeverRecomputed ==
    (obj = "DataCleaning" /\ OnlyRewritten) =>
        /\ Len(df) = Len(df0)
        /\ \A r \in DOMAIN df : [df[r] EXCEPT !.sentence = df0[r].sentence] = df0[r]
        /\ applied # <<>> =>
             LET before == ApplyAll(Front(applied), df0, gap)
                 last == applied[Len(applied)]
             IN  \A r \in DOMAIN df :
                   /\ last = "add_entity_tokens_base" =>
                        df[r].sentence =
                            BaseLoop(before[r].sentence, SortedReverse(Offsets(df0[r])), 0)
                   /\ last = "add_entity_tokens_detail" =>
                        df[r].sentence =
                            DetailLoop(df0[r], before[r].sentence, SortedReverse(Offsets(df0[r])),
                                       0, InitialTrigger(df0[r]))

\* the markers of the second operation cut into the "[OTH]" the first one wrote
C9_Witness ==
    /\ obj = "DataCleaning"
    /\ pc = "returned"
    /\ applied = <<"add_others_tokens", "add_entity_tokens_base">>
    /\ df[1].sentence # add_others_tokens(add_entity_tokens_base(df0))[1].sentence
    /\ df[1].subject_end_idx = df0[1].subject_end_idx

\* C10: in prediction mode the table that reaches tokenization has the rows
\* of the loaded table, as many and in the same order, whatever select_DC
\* holds: remove_duplicated is skipped, no other operation adds, drops or
\* reorders rows, and no augmentation runs.
C10_PredictionKeepsRows ==
    (obj = "DataCleaning" /\ ~train) =>
        /\ Len(df) = Len(df0)
        /\ aug_df = <<>>
        /\ pc = "tokenized" =>
              /\ Len(item) = Len(df0)
              /\ \A k \in DOMAIN df0 :
                    /\ ret[k].idx = df0[k].idx
                    /\ [ret[k] EXCEPT !.sentence = df0[k].sentence] = df0[k]
                    /\ item[k].concat_entity = df0[k].object_entity \o SEP \o df0[k].subject_entity
                    /\ item[k].sentence = ret[k].sentence

C10_Witness ==
    /\ obj = "DataCleaning"
    /\ ~train
    /\ pc = "tokenized"
    /\ df0 = AllDuplicatesTable
    /\ select_list = <<"remove_duplicated", "add_entity_tokens_detail">>
    /\ Len(item) = Len(AllDuplicatesTable)

(***************************************************************************)
(* DupSpec: process with select_DC = ['remove_duplicated'] on tables whose *)
(* index holds any part of the hard-coded labels.                          *)
(***************************************************************************)
DelLabels == {del_idx[j] : j \in DOMAIN del_idx}

LabelPool == DelLabels \cup {0, 22259}

RECURSIVE AscendingSeq(_)
AscendingSeq(S) == IF S = {} THEN <<>> ELSE <<MinOf(S)>> \o AscendingSeq(S \ {MinOf(S)})

DupInit ==
    /\ obj = "DataCleaning"
    /\ df \in {TableOf(AscendingSeq(S)) : S \in SUBSET LabelPool}
    /\ df0 = df
    /\ ret = <<>>
    /\ select_list = <<"remove_duplicated">>
    /\ train \in BOOLEAN
    /\ pc = "process"
    /\ pos = 1
    /\ applied = <<>>
    /\ gap = 0
    /\ aug_df = <<>>
    /\ inputs = NoDataset
    /\ targets = <<>>
    /\ item = <<>>

DupNext == DC_continue \/ DC_remove_duplicated \/ DC_return

DupSpec == DupInit /\ [][DupNext]_vars

\* the positions of t whose label is not in D, and the table made of those
\* rows in their order, labelled 0, 1, 2, ...
KeptPositions(t, D) == {p \in DOMAIN t : t[p].idx \notin D}

NthKept(t, D, n) ==
    CHOOSE p \in KeptPositions(t, D) : Cardinality({q \in KeptPositions(t, D) : q < p}) = n - 1

WithoutRows(t, D) ==
    [n \in 1..Cardinality(KeptPositions(t, D)) |-> [t[NthKept(t, D, n)] EXCEPT !.idx = n - 1]]

TrainingCallOver ==
    obj = "DataCleaning" /\ train /\ select_list = <<"remove_duplicated">> /\ pc # "process"

\* C6 (as stated): in training mode, on a table that holds one of the
\* hard-coded labels, remove_duplicated removes exactly the rows with those
\* labels the table holds, keeps the others in order and re-indexes from 0.
C6_RemovesTheDuplicateRowsPresent ==
    (TrainingCallOver /\ Labels(df0) \cap DelLabels # {}) =>
        /\ pc = "returned"
        /\ df = WithoutRows(df0, Labels(df0) \cap DelLabels)

\* C6 (amended): in training mode, on a table whose index holds all six
\* hard-coded labels, remove_duplicated removes exactly those six rows, keeps
\* every other row in its order and re-indexes the rest from 0; on a table
\* that lacks any of the six labels the call raises KeyError and the table is
\* left as it was, none of its rows removed.
C6_RemovesAllSixOrRaises ==
    TrainingCallOver =>
        IF DelLabels \subseteq Labels(df0)
        THEN /\ pc = "returned"
             /\ Len(df) = Len(df0) - Len(del_idx)
             /\ df = WithoutRows(df0, DelLabels)
             /\ \A k \in DOMAIN df : df[k].idx = k - 1
             /\ ret = df
        ELSE /\ pc = "KeyError"
             /\ df = df0

C6_Witness ==
    /\ TrainingCallOver
    /\ pc = "returned"
    /\ Len(df0) = 8
    /\ Len(df) = 2
    /\ df[2].idx = 1

C6_WitnessRaises ==
    /\ TrainingCallOver
    /\ pc = "KeyError"
    /\ Labels(df0) = {0, 277}

(***************************************************************************)
(* Dataset: __len__ and __getitem__ on tokenizer output.  A row of a       *)
(* tensor is one number here.                                              *)
(***************************************************************************)
Keys == {"input_ids", "token_type_ids", "attention_mask"}

DatasetInit ==
    /\ obj = "Dataset"
    /\ \E n \in 0..MaxRows :
          /\ inputs \in [Keys -> [1..n -> 0..1]]
          /\ targets \in {<<>>} \cup [1..n -> 0..1]
    /\ item = <<>>
    /\ pc = "constructed"
    /\ df = <<>>
    /\ df0 = <<>>
    /\ ret = <<>>
    /\ select_list = <<>>
    /\ train = FALSE
    /\ pos = 0
    /\ applied = <<>>
    /\ gap = 0
    /\ aug_df = <<>>

Dataset_len == Len(inputs["input_ids"])

\* "if self.targets:" on a list
Truthy(l) == l # <<>>

\* faulty variant: the targets are never returned
Dataset_getitemInputsOnly(idx) ==
    [returns |-> "inputs", inputs |-> [key \in DOMAIN inputs |-> inputs[key][idx + 1]]]

Dataset_getitem(idx) ==
    LET row == [key \in DOMAIN inputs |-> inputs[key][idx + 1]]
    IN  IF Truthy(targets)
        THEN [returns |-> "pair", inputs |-> row, targets |-> targets[idx + 1]]
        ELSE [returns |-> "inputs", inputs |-> row]

CallLen ==
    /\ obj = "Dataset"
    /\ pc = "constructed"
    /\ item' = [returns |-> "len", len |-> Dataset_len]
    /\ pc' = "len"
    /\ UNCHANGED <<obj, df, df0, ret, select_list, train, pos, applied, gap, aug_df, inputs, targets>>

CallGetItem ==
    /\ obj = "Dataset"
    /\ pc = "constructed"
    /\ \E idx \in 0..(Dataset_len - 1) :
          /\ item' = Dataset_getitem(idx)
          /\ pos' = idx
    /\ pc' = "getitem"
    /\ UNCHANGED <<obj, df, df0, ret, select_list, train, applied, gap, aug_df, inputs, targets>>

DatasetNext == CallLen \/ CallGetItem

DatasetSpec == DatasetInit /\ [][DatasetNext]_vars

\* C7: len() is the number of rows of inputs['input_ids'] whatever targets
\* is; for a valid index i, indexing returns only the input mapping (the i-th
\* row of every key) when targets is the empty list and the pair (mapping,
\* targets[i]) otherwise; the keys of the mapping are the keys of inputs.
C7_DatasetLenAndItem ==
    /\ pc = "len" => item.len = Len(inputs["input_ids"])
    /\ pc = "getitem" =>
          /\ DOMAIN item.inputs = Keys
          /\ \A key \in Keys : item.inputs[key] = inputs[key][pos + 1]
          /\ targets = <<>> => DOMAIN item = {"returns", "inputs"}
          /\ targets # <<>> =>
                /\ DOMAIN item = {"returns", "inputs", "targets"}
                /\ item.targets = targets[pos + 1]

C7_Witness ==
    /\ pc = "getitem"
    /\ pos = 1
    /\ targets = <<>>
    /\ item.inputs["input_ids"] = 1
    /\ inputs["input_ids"] = <<0, 1>>

C7_WitnessPair ==
    /\ pc = "getitem"
    /\ targets = <<0, 1>>
    /\ pos = 1
    /\ item.targets = 1

====
